---- MODULE Spec2Model ----
(***************************************************************************)
(* A model of facedetect/lib.py, class FaceDetector.                       *)
(*                                                                         *)
(* Pixel contents are not modelled.  An image is its shape; what OpenCV    *)
(* computes from pixels (the Laplacian energy of a region, the rectangles  *)
(* a cascade finds, whether a file loads) is an input chosen from a small  *)
(* set.  Floating-point values are modelled by the exact real numbers they *)
(* approximate, except the one value the code can produce that is not a    *)
(* real number: 0.0 / 0.0 of numpy, NaN, which is modelled as NaN.         *)
(***************************************************************************)
EXTENDS Integers, Sequences, FiniteSets, TLC

VARIABLES
    ctorConfig,      \* the argument given to __init__
    configuration,   \* self._configuration
    stderr,          \* what was written to sys.stderr
    process,         \* [exited, status]: sys.exit has been called, with status
    call,            \* the last public operation: its steps, exception, result
    configured,      \* history: a configure returned; one whose PROFILES held HAAR did
    norm,            \* the last _norm_rect call: arguments and result
    ranking,         \* the last _rank call, and its re-run on a permutation
    gen              \* the generator object made by _pairwise_similarity

vars == <<ctorConfig, configuration, stderr, process, call, configured,
          norm, ranking, gen>>

----------------------------------------------------------------------------
(* Bounds of the model *)

MaxNormSize == 4      \* NORM_SIZE overrides range over 1..MaxNormSize
MaxNormMargin == 2    \* NORM_MARGIN overrides range over 0..MaxNormMargin
MaxCalls == 2         \* detect calls counted per process
MaxFaces == 2         \* rectangles the cascade search may return

(* Program constants *)

DefaultNormSize == 100
DefaultNormMargin == 10
ExitFailure == 1

HAAR == "HAAR_FRONTALFACE_ALT2"
LBP == "LBP_FRONTALFACE"
DefaultDataDir == "/usr/share/opencv/"
OtherDataDir == "/opt/opencv/"

Max(a, b) == IF a >= b THEN a ELSE b
Min(a, b) == IF a <= b THEN a ELSE b

----------------------------------------------------------------------------
(* __init__ : the configuration after construction; the argument is unused *)

InitialConfiguration ==
    [DATA_DIR    |-> DefaultDataDir,
     CASCADES    |-> {},
     PROFILES    |-> <<HAAR>>,
     NORM_SIZE   |-> DefaultNormSize,
     NORM_MARGIN |-> DefaultNormMargin]

(* The config argument of __init__ and configure: None, or a dict holding   *)
(* some of the recognised keys.  keys is the dict's key set; a field whose  *)
(* key is absent is not read.                                               *)
NoConfig ==
    [isDict |-> FALSE, keys |-> {}, DATA_DIR |-> DefaultDataDir,
     PROFILES |-> <<>>, NORM_SIZE |-> DefaultNormSize,
     NORM_MARGIN |-> DefaultNormMargin]

ProfileLists == {<<HAAR>>, <<LBP>>, <<HAAR, LBP>>, <<LBP, HAAR>>, <<>>}

ConfigDicts ==
    {[isDict |-> TRUE, keys |-> {}, DATA_DIR |-> DefaultDataDir,
      PROFILES |-> <<>>, NORM_SIZE |-> DefaultNormSize,
      NORM_MARGIN |-> DefaultNormMargin]}
    \cup {[NoConfig EXCEPT !.isDict = TRUE, !.keys = {"DATA_DIR"},
                           !.DATA_DIR = OtherDataDir]}
    \cup {[NoConfig EXCEPT !.isDict = TRUE, !.keys = {"PROFILES"},
                           !.PROFILES = p] : p \in ProfileLists}
    \cup {[NoConfig EXCEPT !.isDict = TRUE,
                           !.keys = {"NORM_SIZE", "NORM_MARGIN"},
                           !.NORM_SIZE = MaxNormSize,
                           !.NORM_MARGIN = MaxNormMargin]}

Configs == {NoConfig} \cup ConfigDicts

(* What __init__ is given: nothing, or a dict that would change the profiles *)
CtorConfigs ==
    {NoConfig, [NoConfig EXCEPT !.isDict = TRUE, !.keys = {"PROFILES"},
                                !.PROFILES = <<LBP>>]}

(* dict.update *)
update(cfg, d) ==
    [DATA_DIR    |-> IF "DATA_DIR" \in d.keys THEN d.DATA_DIR ELSE cfg.DATA_DIR,
     CASCADES    |-> cfg.CASCADES,
     PROFILES    |-> IF "PROFILES" \in d.keys THEN d.PROFILES ELSE cfg.PROFILES,
     NORM_SIZE   |-> IF "NORM_SIZE" \in d.keys THEN d.NORM_SIZE ELSE cfg.NORM_SIZE,
     NORM_MARGIN |-> IF "NORM_MARGIN" \in d.keys THEN d.NORM_MARGIN
                                                 ELSE cfg.NORM_MARGIN]

----------------------------------------------------------------------------
(* The run of one public operation.  An execution state x holds the        *)
(* configuration, stderr and process state as the operation leaves them,   *)
(* the steps it has taken, the exception that ended it ("none" if it       *)
(* returned) and what it returned.                                         *)

NoResult == [faces |-> 0, minlen |-> 0, maxlen |-> 0, flags |-> {}]

Begin(op) ==
    [op |-> op, cfg |-> configuration, err |-> stderr, proc |-> process,
     steps |-> <<>>, raised |-> "none", returned |-> FALSE,
     result |-> NoResult, before |-> configuration.CASCADES]

Step(x, what, arg) == [x EXCEPT !.steps = Append(@, <<what, arg>>)]

(* _error: one line on stderr.  msg is <<text, subject>>: the message's  *)
(* words and the profile or path it names.                              *)
_error(x, msg) ==
    [Step(x, "_error", msg[2]) EXCEPT !.err = Append(@, msg)]

(* _fatal without its sys.exit: the message is written and the call returns *)
fatal_returns(x, msg) == _error(x, msg)

(* _fatal: the message, then sys.exit(1), which raises SystemExit *)
_fatal(x, msg) ==
    LET y == _error(x, msg)
    IN  [Step(y, "sys.exit", "1") EXCEPT
            !.proc = [exited |-> TRUE, status |-> ExitFailure],
            !.raised = "SystemExit"]

(* What the file system and cv2.CascadeClassifier do for one profile:      *)
(* "missing": os.path.exists is false, cv2.error is raised by hand;        *)
(* "bad": the constructor raises cv2.error; "ok": the classifier is built. *)
LoadOutcomes == {"ok", "missing", "bad"}

(* _load_cascades, the body of the loop for profile k: the try block, then *)
(* the handler of cv2.error                                                *)
LoadOne(x, k, outcome) ==
    LET y == Step(x, "load", k)
    IN  IF outcome = "ok"
        THEN [Step(y, "register", k) EXCEPT !.cfg.CASCADES = @ \cup {k}]
        ELSE _fatal(Step(y, "cv2.error", k), <<"cannot load", k>>)

(* _load_cascades: the loop over PROFILES.items(), from the i-th profile;  *)
(* an exception leaves the loop.                                           *)
RECURSIVE LoadFrom(_, _, _)
LoadFrom(x, i, load) ==
    IF i > Len(x.cfg.PROFILES) \/ x.raised # "none"
    THEN x
    ELSE LET k == x.cfg.PROFILES[i]
         IN  LoadFrom(LoadOne(x, k, load[k]), i + 1, load)

_load_cascades(x, load) == LoadFrom(x, 1, load)

(* configure *)
configure(x, config, load) ==
    LET y == IF config.isDict
             THEN [x EXCEPT !.cfg = update(x.cfg, config)]
             ELSE x
        z == _load_cascades(Step(y, "_cv2_compatibility", ""), load)
    IN  IF z.raised = "none" THEN [Step(z, "return", "") EXCEPT !.returned = TRUE]
        ELSE z

(* int(math.sqrt(n) / q): the largest k with (q*k)^2 <= n *)
RECURSIVE IntSqrtDivFrom(_, _, _)
IntSqrtDivFrom(n, q, k) ==
    IF (q * (k + 1)) * (q * (k + 1)) > n THEN k ELSE IntSqrtDivFrom(n, q, k + 1)

IntSqrtDiv(n, q) == IntSqrtDivFrom(n, q, 0)

(* detect with the classifier taken with a default (dict.get) instead of   *)
(* a lookup that raises, and the search is invoked.                        *)
detect_without_lookup(x, im, biggest, found) ==
    LET flags == {"DO_CANNY_PRUNING"} \cup
                 (IF biggest THEN {"FIND_BIGGEST_OBJECT"} ELSE {})
    IN  [Step(Step(x, "detectMultiScale", ""), "return", "") EXCEPT
            !.returned = TRUE,
            !.result = [faces |-> found,
                        minlen |-> IntSqrtDiv(im.w * im.h, 20),
                        maxlen |-> IntSqrtDiv(im.w * im.h, 2),
                        flags |-> flags]]

(* detect: found is what cc.detectMultiScale returns *)
detect(x, im, biggest, found) ==
    LET flags == {"DO_CANNY_PRUNING"} \cup
                 (IF biggest THEN {"FIND_BIGGEST_OBJECT"} ELSE {})
        y == Step(x, "lookup", HAAR)
    IN  IF HAAR \notin y.cfg.CASCADES
        THEN [y EXCEPT !.raised = "KeyError"]
        ELSE [Step(Step(y, "detectMultiScale", ""), "return", "") EXCEPT
                 !.returned = TRUE,
                 !.result = [faces |-> found,
                             minlen |-> IntSqrtDiv(im.w * im.h, 20),
                             maxlen |-> IntSqrtDiv(im.w * im.h, 2),
                             flags |-> flags]]

(* detect_from_file: loaded is whether cv2.imread returned an image *)
detect_from_file(x, loaded, im, biggest, found) ==
    LET y == Step(x, "imread", IF loaded THEN "image" ELSE "None")
        z == IF ~loaded THEN _fatal(y, <<"cannot load input image", "path">>)
             ELSE y
    IN  IF z.raised # "none" THEN z
        ELSE detect(Step(z, "equalizeHist", ""), im, biggest, found)

----------------------------------------------------------------------------
(* Inputs of the public operations *)

ImageShapes == {[w |-> 20, h |-> 20], [w |-> 40, h |-> 30]}

Found(biggest) == 0..(IF biggest THEN Min(1, MaxFaces) ELSE MaxFaces)

Searches(x) ==
    Cardinality({i \in 1..Len(x.steps) : x.steps[i][1] = "detectMultiScale"})

IdleNorm == [called |-> FALSE]
IdleRanking == [called |-> FALSE]
IdleGen == [state |-> "none"]

Commit(x) ==
    /\ configuration' = x.cfg
    /\ stderr' = x.err
    /\ process' = x.proc
    /\ call' = [op |-> x.op, steps |-> x.steps, raised |-> x.raised,
                returned |-> x.returned, result |-> x.result,
                before |-> x.before,
                searches |-> Min(MaxCalls, call.searches + Searches(x))]
    /\ configured' = IF x.op = "configure" /\ x.returned
                     THEN [done |-> TRUE,
                           haar |-> configured.haar \/
                                    \E i \in 1..Len(x.cfg.PROFILES) :
                                       x.cfg.PROFILES[i] = HAAR]
                     ELSE configured
    /\ UNCHANGED <<ctorConfig, norm, ranking, gen>>

Init ==
    /\ ctorConfig \in CtorConfigs
    /\ configuration = InitialConfiguration
    /\ stderr = <<>>
    /\ process = [exited |-> FALSE, status |-> 0]
    /\ call = [op |-> "__init__", steps |-> <<>>, raised |-> "none",
               returned |-> TRUE, result |-> NoResult, before |-> {},
               searches |-> 0]
    /\ configured = [done |-> FALSE, haar |-> FALSE]
    /\ norm = IdleNorm
    /\ ranking = IdleRanking
    /\ gen = IdleGen

Configure ==
    /\ ~process.exited
    /\ \E config \in Configs, load \in [{HAAR, LBP} -> LoadOutcomes] :
          Commit(configure(Begin("configure"), config, load))

Detect ==
    /\ ~process.exited
    /\ \E im \in ImageShapes, biggest \in BOOLEAN :
          \E found \in Found(biggest) :
             Commit(detect(Begin("detect"), im, biggest, found))

DetectFromFile ==
    /\ ~process.exited
    /\ \E loaded \in BOOLEAN, im \in ImageShapes, biggest \in BOOLEAN :
          \E found \in Found(biggest) :
             Commit(detect_from_file(Begin("detect_from_file"), loaded, im,
                                     biggest, found))

Next == Configure \/ Detect \/ DetectFromFile

Spec == Init /\ [][Next]_vars

----------------------------------------------------------------------------
(* Geometry: an array is its shape [w, h] (numpy's shape is (h, w)) *)

MaxImSide == 4        \* bound: images of the geometry model are up to this wide and high

(* One index of a Python slice a[start:stop] on a length n *)
SliceIndex(n, i) == IF i < 0 THEN Max(0, n + i) ELSE Min(n, i)

(* len(a[start:stop]) for len(a) = n *)
SliceLen(n, start, stop) ==
    Max(0, SliceIndex(n, stop) - SliceIndex(n, start))

(* _crop_rect *)
_crop_rect(im, rect, shave) ==
    [w |-> SliceLen(im.w, rect.x + shave, rect.x + rect.w - shave),
     h |-> SliceLen(im.h, rect.y + shave, rect.y + rect.h - shave)]

(* _shave_margin: im[margin:-margin, margin:-margin] *)
_shave_margin(im, margin) ==
    [w |-> SliceLen(im.w, margin, 0 - margin),
     h |-> SliceLen(im.h, margin, 0 - margin)]

(* int(x) of the float x = a * (side / m), for a, side, m > 0: the product *)
(* cut to its integer part                                                 *)
IntOfScaled(a, side, m) == (a * side) \div m

(* _norm_rect: what dsize it asks of cv2.resize, and the shape it returns. *)
(* cv2.resize raises cv2.error on an empty source or an empty dsize.       *)
_norm_rect(cfg, im, rect, equalize, same_aspect) ==
    LET roi   == _crop_rect(im, rect, 0)
        side  == cfg.NORM_SIZE + cfg.NORM_MARGIN
        dsize == IF same_aspect
                 THEN [w |-> IntOfScaled(rect.w, side, Max(rect.w, rect.h)),
                       h |-> IntOfScaled(rect.h, side, Max(rect.w, rect.h))]
                 ELSE [w |-> side, h |-> side]
        ok    == roi.w > 0 /\ roi.h > 0 /\ dsize.w > 0 /\ dsize.h > 0
    IN  [called |-> TRUE, im |-> im, rect |-> rect, equalize |-> equalize,
         same_aspect |-> same_aspect, equalized |-> equalize,
         side |-> side, dsize |-> dsize,
         raised |-> IF ok THEN "none" ELSE "cv2.error",
         out |-> IF ok THEN _shave_margin(dsize, cfg.NORM_MARGIN)
                 ELSE [w |-> 0, h |-> 0]]

(* The rectangles of the data model: inside the image, not empty *)
Rects(im) ==
    {[x |-> x, y |-> y, w |-> w, h |-> h] :
        x \in 0..(im.w - 1), y \in 0..(im.h - 1), w \in 1..im.w, h \in 1..im.h}

ContainedRects(im) ==
    {r \in Rects(im) : r.x + r.w <= im.w /\ r.y + r.h <= im.h}

(* A configuration as configure leaves it: the defaults, or overridden sizes *)
NormConfigurations ==
    {[InitialConfiguration EXCEPT !.CASCADES = {HAAR},
                                  !.NORM_SIZE = n, !.NORM_MARGIN = m] :
        n \in {DefaultNormSize} \cup 1..MaxNormSize,
        m \in {DefaultNormMargin} \cup 0..MaxNormMargin}

InitNorm ==
    /\ ctorConfig = NoConfig
    /\ configuration \in NormConfigurations
    /\ stderr = <<>>
    /\ process = [exited |-> FALSE, status |-> 0]
    /\ call = [op |-> "configure", steps |-> <<>>, raised |-> "none",
               returned |-> TRUE, result |-> NoResult, before |-> {},
               searches |-> 0]
    /\ configured = [done |-> TRUE, haar |-> TRUE]
    /\ \E rect \in ContainedRects([w |-> MaxImSide, h |-> MaxImSide]),
          equalize \in BOOLEAN, same_aspect \in BOOLEAN :
          norm = [called |-> FALSE, im |-> [w |-> MaxImSide, h |-> MaxImSide],
                  rect |-> rect, equalize |-> equalize,
                  same_aspect |-> same_aspect]
    /\ ranking = IdleRanking
    /\ gen = IdleGen

NormRect ==
    /\ ~norm.called
    /\ norm' = _norm_rect(configuration, norm.im, norm.rect, norm.equalize,
                          norm.same_aspect)
    /\ UNCHANGED <<ctorConfig, configuration, stderr, process, call,
                   configured, ranking, gen>>

NextNorm == NormRect

SpecNorm == InitNorm /\ [][NextNorm]_vars

(* C1: with same_aspect=False and NORM_MARGIN >= 1, _norm_rect returns an *)
(* image of exactly NORM_SIZE x NORM_SIZE pixels.                          *)
C1_SquareOfNormSize ==
    (norm.called /\ ~norm.same_aspect /\ configuration.NORM_MARGIN >= 1) =>
        /\ norm.raised = "none"
        /\ norm.dsize.w = configuration.NORM_SIZE + configuration.NORM_MARGIN
        /\ norm.dsize.h = configuration.NORM_SIZE + configuration.NORM_MARGIN
        /\ norm.out.w = configuration.NORM_SIZE
        /\ norm.out.h = configuration.NORM_SIZE

(* C9: with same_aspect=True each side of the resize target is the         *)
(* product side*scale rounded to the nearest integer, scale being          *)
(* (NORM_SIZE + NORM_MARGIN) / max(w, h): it is an integer within one half *)
(* of the product.                                                         *)
NearestTo(k, a, side, m) ==
    LET d == k * m - a * side
    IN  2 * (IF d < 0 THEN 0 - d ELSE d) <= m

C9_TargetIsRounded ==
    (norm.called /\ norm.same_aspect) =>
        /\ NearestTo(norm.dsize.w, norm.rect.w, norm.side,
                     Max(norm.rect.w, norm.rect.h))
        /\ NearestTo(norm.dsize.h, norm.rect.h, norm.side,
                     Max(norm.rect.w, norm.rect.h))

----------------------------------------------------------------------------
(* Ranking.  Numbers: a rational is [num, den] in lowest terms, den > 0.   *)
(* A value that may be NaN is [nan, v].  The distance d is [q, mx],        *)
(* standing for sqrt(q) / mx.  A fitness is [nan, r, q, mx], standing for  *)
(* r - sqrt(q) / (10 * mx).                                                *)

MaxRects == 3         \* bound: _rank is given 1..MaxRects rectangles

RECURSIVE Gcd(_, _)
Gcd(a, b) == IF b = 0 THEN a ELSE Gcd(b, a % b)

Abs(a) == IF a < 0 THEN 0 - a ELSE a

Frac(n, d) ==
    LET g == Gcd(Abs(n), d) IN [num |-> n \div g, den |-> d \div g]

FracAdd(a, b) == Frac(a.num * b.den + b.num * a.den, a.den * b.den)
FracSub(a, b) == Frac(a.num * b.den - b.num * a.den, a.den * b.den)
FracMul(a, b) == Frac(a.num * b.num, a.den * b.den)
FracLess(a, b) == a.num * b.den < b.num * a.den

(* a / b of two numpy floats a >= 0, b >= 0: 0 / 0 is NaN (with a warning) *)
FloatDiv(a, b) ==
    IF b.num = 0
    THEN [nan |-> TRUE, v |-> Frac(0, 1)]
    ELSE [nan |-> FALSE, v |-> Frac(a.num * b.den, a.den * b.num)]

(* a / D > sqrt(q1) - sqrt(q2), for integers a, D > 0, q1 >= 0, q2 >= 0 *)
GtSqrtDiff(a, D, q1, q2) ==
    LET c == D * D * (q1 + q2) - a * a
    IN  IF q1 = q2 THEN a > 0
        ELSE IF q1 > q2
        THEN a > 0 /\ (c < 0 \/ 4 * q1 * q2 * D * D * D * D > c * c)
        ELSE a >= 0 \/ (c > 0 /\ 4 * q1 * q2 * D * D * D * D < c * c)

(* f > g as Python compares two floats: false when either is NaN.  Both    *)
(* are fitnesses of rectangles of one image (f.mx = g.mx).                 *)
FitnessGt(f, g) ==
    IF f.nan \/ g.nan THEN FALSE
    ELSE LET rho == FracMul(Frac(10 * f.mx, 1), FracSub(f.r, g.r))
         IN  GtSqrtDiff(rho.num, rho.den, f.q, g.q)

(* The pass of _rank over one rectangle: s, e and d.  e, the mean of the   *)
(* Laplacian of the region normalized by _norm_rect(equalize=False,        *)
(* same_aspect=True), is given: a number >= 0, the same for the same       *)
(* rectangle of the same image.                                            *)
Score(im, rect, e) ==
    [s |-> Frac(rect.w + rect.h, 2),
     e |-> Frac(e, 1),
     d |-> [q |-> (im.w - 2 * rect.x + rect.w) * (im.w - 2 * rect.x + rect.w)
                  + (im.h - 2 * rect.y + rect.h) * (im.h - 2 * rect.y + rect.h),
            mx |-> Max(im.w, im.h)]]

(* max(...) of a list of rationals, given as a function on 0..n-1 *)
RECURSIVE MaxUpTo(_, _)
MaxUpTo(xs, i) ==
    IF i = 0 THEN xs[0]
    ELSE LET m == MaxUpTo(xs, i - 1)
         IN  IF FracLess(m, xs[i]) THEN xs[i] ELSE m

MaxOf(xs) == MaxUpTo(xs, Cardinality(DOMAIN xs) - 1)

(* sMax computed as the size of the first rectangle *)
sMaxOfFirst(scores) == scores[0].s

(* sMax = max([x['s'] for x in scores]) *)
sMaxOf(scores) == MaxOf([i \in DOMAIN scores |-> scores[i].s])

(* eMax = max([x['e'] for x in scores]) *)
eMaxOf(scores) == MaxOf([i \in DOMAIN scores |-> scores[i].e])

(* The second pass of _rank: sN, eN and f = eN*0.7 + (1 - d)*0.1 + sN*0.2 *)
Normalized(sc, sMax, eMax) ==
    LET sN == FloatDiv(sc.s, sMax)
        eN == FloatDiv(sc.e, eMax)
    IN  [s |-> sc.s, e |-> sc.e, d |-> sc.d, sN |-> sN, eN |-> eN,
         f |-> [nan |-> eN.nan \/ sN.nan,
                r   |-> FracAdd(FracMul(eN.v, Frac(7, 10)),
                                FracAdd(Frac(1, 10), FracMul(sN.v, Frac(2, 10)))),
                q   |-> sc.d.q,
                mx  |-> sc.d.mx]]

(* One insertion of the stable sort: x goes before the first element it    *)
(* is greater than, after every element it is not greater than.            *)
RECURSIVE InsertDesc(_, _, _)
InsertDesc(sorted, x, key) ==
    IF sorted = <<>> THEN <<x>>
    ELSE IF FitnessGt(key[x], key[Head(sorted)])
         THEN <<x>> \o sorted
         ELSE <<Head(sorted)>> \o InsertDesc(Tail(sorted), x, key)

RECURSIVE SortFrom(_, _, _, _)
SortFrom(sorted, i, n, key) ==
    IF i = n THEN sorted
    ELSE SortFrom(InsertDesc(sorted, i, key), i + 1, n, key)

(* sorted(range(n), key=...) without reverse=True, read from its far end *)
sorted_ascending_first(n, key) ==
    LET desc == SortFrom(<<>>, 0, n, key)
    IN  [i \in 1..n |-> desc[n + 1 - i]]

(* sorted(range(n), reverse=True, key=lambda x: scores[x]['f']): a stable  *)
(* sort, which keeps the input order of the elements it finds equal        *)
sorted_reverse(n, key) == SortFrom(<<>>, 0, n, key)

(* _rank: rects and sharp are functions on 0..n-1, n >= 1 *)
_rank(im, rects, sharp) ==
    LET n      == Cardinality(DOMAIN rects)
        first  == [i \in 0..(n - 1) |-> Score(im, rects[i], sharp[i])]
        sMax   == sMaxOf(first)
        eMax   == eMaxOf(first)
        second == [i \in 0..(n - 1) |-> Normalized(first[i], sMax, eMax)]
        ranks  == sorted_reverse(n, [i \in 0..(n - 1) |-> second[i].f])
    IN  [sMax |-> sMax, eMax |-> eMax,
         scores |-> [i \in 0..(n - 1) |->
                       [s |-> second[i].s, e |-> second[i].e, d |-> second[i].d,
                        sN |-> second[i].sN, eN |-> second[i].eN,
                        f |-> second[i].f,
                        RANK |-> (CHOOSE k \in 1..n : ranks[k] = i) - 1]],
         best |-> ranks[1]]

(* The image and the candidate rectangles of the ranking model: square     *)
(* regions of two sizes at two places that mirror each other about the     *)
(* image's diagonal, so that two distinct rectangles can score the same    *)
RankImage == [w |-> 4, h |-> 4]

RankRects ==
    {r \in ContainedRects(RankImage) :
        r.w = r.h /\ r.w <= 2 /\ r.x \in 1..2 /\ r.y \in 1..2 /\ r.x # r.y}

(* The Laplacian energy of a region: 0 for a flat one *)
SharpnessLevels == {0, 1}

RectLists == UNION {[0..(n - 1) -> RankRects] : n \in 1..MaxRects}

(* The permutations of 0..n-1 *)
Perms(n) ==
    {p \in [0..(n - 1) -> 0..(n - 1)] :
        \A i, j \in 0..(n - 1) : i # j => p[i] # p[j]}

InitRank ==
    /\ ctorConfig = NoConfig
    /\ configuration = [InitialConfiguration EXCEPT !.CASCADES = {HAAR}]
    /\ stderr = <<>>
    /\ process = [exited |-> FALSE, status |-> 0]
    /\ call = [op |-> "configure", steps |-> <<>>, raised |-> "none",
               returned |-> TRUE, result |-> NoResult, before |-> {},
               searches |-> 0]
    /\ configured = [done |-> TRUE, haar |-> TRUE]
    /\ norm = IdleNorm
    /\ \E rects \in RectLists :
          \E energy \in [{rects[i] : i \in DOMAIN rects} -> SharpnessLevels] :
             ranking = [called |-> FALSE, again |-> FALSE, im |-> RankImage,
                        rects |-> rects,
                        sharp |-> [i \in DOMAIN rects |-> energy[rects[i]]]]
    /\ gen = IdleGen

(* scores, best = self._rank(im, rects) *)
Rank ==
    /\ ~ranking.called
    /\ ranking' = [called |-> TRUE, again |-> FALSE, im |-> ranking.im,
                   rects |-> ranking.rects, sharp |-> ranking.sharp,
                   out |-> _rank(ranking.im, ranking.rects, ranking.sharp)]
    /\ UNCHANGED <<ctorConfig, configuration, stderr, process, call,
                   configured, norm, gen>>

(* The same call on a permutation of the rectangles: the rectangle at      *)
(* index i of the second call is the one at index perm[i] of the first.    *)
RankPermuted ==
    /\ ranking.called /\ ~ranking.again
    /\ \E perm \in Perms(Cardinality(DOMAIN ranking.rects)) :
          LET rects2 == [i \in DOMAIN perm |-> ranking.rects[perm[i]]]
              sharp2 == [i \in DOMAIN perm |-> ranking.sharp[perm[i]]]
          IN  ranking' = [called |-> TRUE, again |-> TRUE, im |-> ranking.im,
                          rects |-> ranking.rects, sharp |-> ranking.sharp,
                          out |-> ranking.out, perm |-> perm,
                          rects2 |-> rects2,
                          out2 |-> _rank(ranking.im, rects2, sharp2)]
    /\ UNCHANGED <<ctorConfig, configuration, stderr, process, call,
                   configured, norm, gen>>

NextRank == Rank \/ RankPermuted

SpecRank == InitRank /\ [][NextRank]_vars

(* Claims about _rank *)

N1 == Cardinality(DOMAIN ranking.rects)
F1(i) == ranking.out.scores[i].f
F2(i) == ranking.out2.scores[i].f

(* f >= g as Python compares two floats *)
FitnessGe(f, g) == ~f.nan /\ ~g.nan /\ ~FitnessGt(g, f)

(* f and g are the same float (NaN taken to be the same as NaN) *)
SameFitness(f, g) ==
    IF f.nan \/ g.nan THEN f.nan /\ g.nan
    ELSE ~FitnessGt(f, g) /\ ~FitnessGt(g, f)

(* C2: the best index returned by _rank is an arg-max: no candidate of the  *)
(* call has a fitness strictly greater than the fitness of the best index.  *)
C2_BestIsArgMax ==
    /\ ranking.called =>
          /\ ranking.out.best \in 0..(N1 - 1)
          /\ \A i \in 0..(N1 - 1) : ~FitnessGt(F1(i), F1(ranking.out.best))
    /\ (ranking.called /\ ranking.again) =>
          /\ ranking.out2.best \in 0..(N1 - 1)
          /\ \A i \in 0..(N1 - 1) : ~FitnessGt(F2(i), F2(ranking.out2.best))

(* C2, a case: MaxRects candidates, the last one strictly the fittest *)
C2_Witness ==
    /\ ranking.called /\ N1 = MaxRects /\ ranking.out.best = N1 - 1
    /\ \A i \in 0..(N1 - 2) : FitnessGt(F1(N1 - 1), F1(i))

(* C3 as stated: on a permutation of the input every rectangle gets the     *)
(* same fitness, and the best index names the same rectangle, also when two *)
(* rectangles have equal fitness.                                           *)
C3_AsStated ==
    (ranking.called /\ ranking.again) =>
        /\ \A i \in 0..(N1 - 1) : SameFitness(F2(i), F1(ranking.perm[i]))
        /\ ranking.rects2[ranking.out2.best] = ranking.rects[ranking.out.best]

(* The first index of a call that no candidate of the call exceeds *)
FirstUnexceeded(scores) ==
    LET n  == Cardinality(DOMAIN scores)
        ok == {i \in 0..(n - 1) :
                 \A j \in 0..(n - 1) : ~FitnessGt(scores[j].f, scores[i].f)}
    IN  CHOOSE i \in ok : \A j \in ok : i <= j

(* C3, amended: on a permutation of the input sMax and eMax are the same    *)
(* and every rectangle gets the same fitness (NaN in both calls when every  *)
(* sharpness is 0); each call returns the first index of its own input that *)
(* no candidate exceeds; so the two best indices name the same rectangle    *)
(* whenever the best rectangle's fitness is strictly greater than that of   *)
(* every rectangle different from it.                                       *)
C3_PermutationUpToTies ==
    (ranking.called /\ ranking.again) =>
        /\ ranking.out2.sMax = ranking.out.sMax
        /\ ranking.out2.eMax = ranking.out.eMax
        /\ \A i \in 0..(N1 - 1) : SameFitness(F2(i), F1(ranking.perm[i]))
        /\ ranking.out.best = FirstUnexceeded(ranking.out.scores)
        /\ ranking.out2.best = FirstUnexceeded(ranking.out2.scores)
        /\ (\A i \in 0..(N1 - 1) :
               ranking.rects[i] # ranking.rects[ranking.out.best] =>
                  FitnessGt(F1(ranking.out.best), F1(i)))
           => ranking.rects2[ranking.out2.best] = ranking.rects[ranking.out.best]

(* C3, a case: a permutation that moves the strictly fittest of MaxRects    *)
(* different rectangles, of different sizes, to another index               *)
C3_Witness ==
    /\ ranking.called /\ ranking.again /\ N1 = MaxRects
    /\ ranking.out2.best # ranking.out.best
    /\ \A i \in 0..(N1 - 1) :
          i # ranking.out.best => FitnessGt(F1(ranking.out.best), F1(i))
    /\ \E i, j \in 0..(N1 - 1) : ranking.rects[i].w # ranking.rects[j].w

(* C4: when every candidate has sharpness 0 (eMax = 0) nothing is divided   *)
(* by zero: every eN is a number, 0, and scores and a best index are        *)
(* returned.                                                                *)
C4_FlatImageScoresZero ==
    (ranking.called /\ ranking.out.eMax.num = 0) =>
        /\ \A i \in 0..(N1 - 1) :
              /\ ~ranking.out.scores[i].eN.nan
              /\ ranking.out.scores[i].eN.v.num = 0
              /\ ~F1(i).nan
        /\ ranking.out.best \in 0..(N1 - 1)

(* C7: the RANK values are a permutation of 0..n-1 in descending order of   *)
(* fitness (a lower rank has a fitness >= that of a higher rank), equal     *)
(* fitness is ranked in input order, and the best index has RANK 0.         *)
C7_RanksDescendStable ==
    ranking.called =>
        LET sc == ranking.out.scores
        IN  /\ {sc[i].RANK : i \in 0..(N1 - 1)} = 0..(N1 - 1)
            /\ \A i, j \in 0..(N1 - 1) :
                  sc[i].RANK < sc[j].RANK => FitnessGe(sc[i].f, sc[j].f)
            /\ \A i, j \in 0..(N1 - 1) :
                  (i < j /\ SameFitness(sc[i].f, sc[j].f)) => sc[i].RANK < sc[j].RANK
            /\ sc[ranking.out.best].RANK = 0

(* C8: for a rectangle inside the image the centre distance d is in [0, 1]: *)
(* sqrt(q) / mx <= 1, that is q <= mx * mx.                                 *)
C8_DistanceInUnitInterval ==
    ranking.called =>
        \A i \in 0..(N1 - 1) :
            LET d == ranking.out.scores[i].d
            IN  d.q >= 0 /\ d.q <= d.mx * d.mx

----------------------------------------------------------------------------
(* _pairwise_similarity: a generator function.  Calling it runs none of    *)
(* its body; each next() runs the body up to the next yield, or to its end *)
(* (StopIteration), and a finished generator stays finished.  The          *)
(* candidates are rectangles inside the image and the template has the     *)
(* shape _norm_rect returns, so that no cv2 call of the body raises.       *)

MaxFeatures == 3      \* bound: the candidate sequence has 0..MaxFeatures rectangles
MaxStops == 2         \* bound: next() calls counted after the generator's end

(* What _mssim_norm returns for one normalized candidate: a number that    *)
(* stands for the candidate it was computed from                           *)
_mssim_norm(roi) == [of |-> roi.rect, shape |-> roi.out]

(* The call: a generator object whose body has not started *)
_pairwise_similarity(im, features) ==
    [state |-> "created", im |-> im, features |-> features, k |-> 1,
     template_scaled |-> 0, normalized |-> <<>>, scored |-> <<>>,
     yielded |-> <<>>, stops |-> 0]

(* The body up to its yield for candidate k *)
OneCandidate(cfg, g) ==
    LET roi == _norm_rect(cfg, g.im, g.features[g.k], TRUE, FALSE)
    IN  [g EXCEPT !.state = "suspended",
                  !.normalized = Append(@, g.k),
                  !.scored = Append(@, g.k),
                  !.yielded = Append(@, _mssim_norm(roi)),
                  !.k = @ + 1]

(* The body written with a list in place of the generator: every candidate *)
(* is normalized and scored before the first result is handed out.         *)
RECURSIVE AllCandidates(_, _, _)
AllCandidates(cfg, g, k) ==
    IF k > Len(g.features) THEN g
    ELSE LET roi == _norm_rect(cfg, g.im, g.features[k], TRUE, FALSE)
         IN  AllCandidates(cfg, [g EXCEPT !.normalized = Append(@, k),
                                          !.scored = Append(@, k)], k + 1)

resume_eager(cfg, g) ==
    LET h == IF g.state = "created"
             THEN AllCandidates(cfg, [g EXCEPT !.template_scaled = @ + 1], 1)
             ELSE g
    IN  IF g.state = "finished" \/ g.k > Len(g.features)
        THEN [h EXCEPT !.state = "finished", !.stops = Min(MaxStops, @ + 1)]
        ELSE LET roi == _norm_rect(cfg, g.im, g.features[g.k], TRUE, FALSE)
             IN  [h EXCEPT !.state = "suspended",
                           !.yielded = Append(@, _mssim_norm(roi)),
                           !.k = @ + 1]

(* next(generator): the first one scales the template, then the loop runs  *)
(* to its next yield or ends                                               *)
resume(cfg, g) ==
    LET h == IF g.state = "created"
             THEN [g EXCEPT !.template_scaled = @ + 1]
             ELSE g
    IN  IF g.state = "finished" \/ g.k > Len(g.features)
        THEN [h EXCEPT !.state = "finished", !.stops = Min(MaxStops, @ + 1)]
        ELSE OneCandidate(cfg, h)

FeatureLists == UNION {[1..n -> RankRects] : n \in 0..MaxFeatures}

InitSim ==
    /\ ctorConfig = NoConfig
    /\ configuration = [InitialConfiguration EXCEPT !.CASCADES = {HAAR}]
    /\ stderr = <<>>
    /\ process = [exited |-> FALSE, status |-> 0]
    /\ call = [op |-> "configure", steps |-> <<>>, raised |-> "none",
               returned |-> TRUE, result |-> NoResult, before |-> {},
               searches |-> 0]
    /\ configured = [done |-> TRUE, haar |-> TRUE]
    /\ norm = IdleNorm
    /\ ranking = IdleRanking
    /\ \E features \in FeatureLists :
          gen = [state |-> "none", im |-> RankImage, features |-> features]

(* g = self._pairwise_similarity(im, features, template) *)
PairwiseSimilarity ==
    /\ gen.state = "none"
    /\ gen' = _pairwise_similarity(gen.im, gen.features)
    /\ UNCHANGED <<ctorConfig, configuration, stderr, process, call,
                   configured, norm, ranking>>

(* next(g), by the consumer; it may also never ask again *)
GenNext ==
    /\ gen.state # "none"
    /\ gen.stops < MaxStops
    /\ gen' = resume(configuration, gen)
    /\ UNCHANGED <<ctorConfig, configuration, stderr, process, call,
                   configured, norm, ranking>>

NextSim == PairwiseSimilarity \/ GenNext

SpecSim == InitSim /\ [][NextSim]_vars

(* C5: the generator yields the results in input order, the k-th from the   *)
(* k-th candidate; when k results have been taken exactly the first k       *)
(* candidates have been normalized and scored, none before the first        *)
(* next(); it ends after the n-th result, with n results, and yields        *)
(* nothing more.                                                            *)
C5_LazyOneShot ==
    gen.state # "none" =>
        LET n == Len(gen.features)
            k == Len(gen.yielded)
        IN  /\ k <= n
            /\ \A i \in 1..k :
                  gen.yielded[i] =
                     _mssim_norm(_norm_rect(configuration, gen.im,
                                            gen.features[i], TRUE, FALSE))
            /\ gen.normalized = [i \in 1..k |-> i]
            /\ gen.scored = [i \in 1..k |-> i]
            /\ gen.state = "created" => (k = 0 /\ gen.template_scaled = 0)
            /\ gen.state # "created" => gen.template_scaled = 1
            /\ gen.state = "suspended" => k >= 1
            /\ gen.stops > 0 <=> gen.state = "finished"
            /\ gen.state = "finished" => k = n

(* C5, a case: one result taken of MaxFeatures different candidates *)
C5_Witness ==
    /\ gen.state = "suspended"
    /\ Len(gen.features) = MaxFeatures
    /\ Len(gen.yielded) = 1
    /\ gen.features[1] # gen.features[2]

----------------------------------------------------------------------------
(* Claims about loading and the life of a detector *)

Took(what, arg) == \E i \in 1..Len(call.steps) : call.steps[i] = <<what, arg>>
TookAny(what) == \E i \in 1..Len(call.steps) : call.steps[i][1] = what
LastStep == call.steps[Len(call.steps)]
Registered == {k \in {HAAR, LBP} : Took("register", k)}
LoadFailed == TookAny("cv2.error") \/ Took("imread", "None")

(* C6: a load failure (a cascade file that is missing or does not load, an  *)
(* image that does not load) writes its message and ends the process with   *)
(* status 1, and nothing of the operation runs after it: the profile that   *)
(* failed is not registered, the image is not equalized, detect is not      *)
(* called and nothing is returned.                                          *)
C6_LoadFailureIsFatal ==
    /\ LoadFailed => process.exited
    /\ process.exited =>
          /\ LoadFailed
          /\ process.status = 1
          /\ Len(stderr) = 1
          /\ call.raised = "SystemExit" /\ ~call.returned
          /\ LastStep = <<"sys.exit", "1">>
          /\ call.steps[Len(call.steps) - 1] = <<"_error", stderr[1][2]>>
          /\ ~TookAny("return") /\ ~TookAny("equalizeHist")
          /\ ~TookAny("lookup") /\ ~TookAny("detectMultiScale")
          /\ call.op = "configure" =>
                /\ stderr[1][1] = "cannot load"
                /\ ~Took("register", stderr[1][2])
                /\ configuration.CASCADES = call.before \cup Registered
          /\ call.op = "detect_from_file" =>
                /\ stderr[1][1] = "cannot load input image"
                /\ configuration.CASCADES = call.before

(* C6, a case: the second profile of two fails after the first was loaded *)
C6_Witness ==
    /\ process.exited /\ call.op = "configure"
    /\ Took("register", HAAR) /\ Took("cv2.error", LBP)

IsDetect == call.op \in {"detect", "detect_from_file"}

(* C10 as stated: until a configure has returned CASCADES is empty and      *)
(* detect fails with a lookup error without a search; once a configure has  *)
(* returned, HAAR_FRONTALFACE_ALT2 is in CASCADES.                          *)
C10_AsStated ==
    /\ (~configured.done /\ ~process.exited) =>
          /\ configuration.CASCADES = {}
          /\ (IsDetect /\ TookAny("lookup")) =>
                (call.raised = "KeyError" /\ ~TookAny("detectMultiScale"))
    /\ configured.done => HAAR \in configuration.CASCADES

(* C10, amended: until a configure has returned CASCADES is empty and       *)
(* detect fails with a lookup error without a search; detect returns only   *)
(* when HAAR_FRONTALFACE_ALT2 is in CASCADES; and once a configure whose    *)
(* PROFILES name HAAR_FRONTALFACE_ALT2 has returned, that cascade is in     *)
(* CASCADES and stays there.                                                *)
C10_DetectNeedsConfigure ==
    /\ (~configured.done /\ ~process.exited) =>
          /\ configuration.CASCADES = {}
          /\ (IsDetect /\ TookAny("lookup")) =>
                (call.raised = "KeyError" /\ ~TookAny("detectMultiScale"))
    /\ (IsDetect /\ (call.returned \/ TookAny("detectMultiScale"))) =>
          (configured.done /\ HAAR \in configuration.CASCADES)
    /\ (IsDetect /\ TookAny("lookup") /\ HAAR \notin configuration.CASCADES) =>
          (call.raised = "KeyError" /\ ~call.returned
           /\ ~TookAny("detectMultiScale"))
    /\ configured.haar => HAAR \in configuration.CASCADES

(* C10, a case: detect has searched MaxCalls times after a configure *)
C10_Witness ==
    /\ configured.haar /\ call.op = "detect" /\ call.returned
    /\ call.searches = MaxCalls

====
